---- MODULE Spec2Model ----
(***************************************************************************)
(* ReasoningNode (scrapegraphai/nodes/reasoning_node.py): construction of  *)
(* the node from its configuration and the steps of execute(state).  The   *)
(* schema-transform utility and the LLM client are collaborators: each     *)
(* call of one returns a value or raises, chosen by the environment.       *)
(***************************************************************************)
EXTENDS Naturals, Sequences, FiniteSets, TLC

\* Number of execute calls the caller makes on the node.
MaxCalls == 2

\* Python's None, and an attribute that was never assigned; neither is a text.
None == "<None>"
NoAttr == "<unset>"

\* Keys and values of the shared state mapping.
Keys == {"user_prompt", "doc", "answer"}
Texts == {"names and prices", "titles"}

\* The constructor's arguments the caller may pass.
OutputLists == {<<>>, <<"answer">>, <<"user_prompt">>, <<"doc", "answer">>}
LLMClasses == {"ChatOllama", "ChatOpenAI"}
SchemaClasses == {"Product"}
InfoValues == {None, "", "site sells shoes"}

\* What transform_schema can return: a mapping of field names to types,
\* held here as its set of field names.
Structures == {{"name"}, {"name", "price"}}

VARIABLES
    node_config,    \* constructor argument: None, or a dict
    output_arg,     \* constructor argument: the list of output keys
    llm_model,      \* the LLM client object: its class and its format attribute
    ctor,           \* outcome of the construction
    node,           \* the node's attributes (self)
    state,          \* the caller's state dict, mutated in place
    pc,             \* position of the current execute call
    user_prompt,    \* local of execute
    prompt,         \* local of execute: the PromptTemplate
    refined_prompt, \* local of execute
    error,          \* the exception that reached the caller, if any
    ret,            \* what execute returned
    calls,          \* execute calls started so far
    cur,            \* record of the current call: what the collaborators saw and gave
    history         \* the records of the completed calls

vars == <<node_config, output_arg, llm_model, ctor, node, state, pc, user_prompt,
          prompt, refined_prompt, error, ret, calls, cur, history>>

----------------------------------------------------------------------------
\* Python dict operations.

\* A lookup with a default instead of the KeyError.
GetItemOrEmpty(d, k) ==
    IF k \in DOMAIN d
    THEN [ok |-> TRUE, value |-> d[k], error |-> ""]
    ELSE [ok |-> TRUE, value |-> "", error |-> ""]

\* d[k]: the value, or KeyError.
GetItem(d, k) ==
    IF k \in DOMAIN d
    THEN [ok |-> TRUE, value |-> d[k], error |-> ""]
    ELSE [ok |-> FALSE, value |-> "", error |-> "KeyError"]

\* d.get(k, default)
Get(d, k, default) == IF k \in DOMAIN d THEN d[k] ELSE default

\* d after d.update({k: v})
DictUpdate(d, k, v) == [x \in (DOMAIN d) \cup {k} |-> IF x = k THEN v ELSE d[x]]

\* d rebound to {k: v}
DictReplace(d, k, v) == [x \in {k} |-> v]

----------------------------------------------------------------------------
\* The collaborators.

\* output_schema.schema(): the description of the configured schema class.
SchemaDescription(cls) == CASE cls = "Product" -> "Product: name, price"
                            [] OTHER -> "object"

\* transform_schema(description): a structure, or an exception.
TransformOutcomes(description) ==
    {[ok |-> TRUE, value |-> s, error |-> ""] : s \in Structures}
        \cup {[ok |-> FALSE, value |-> {}, error |-> "TransformError"]}

\* str(simplefied_schema)
Str(s) == CASE s = {"name"} -> "{'name': 'string'}"
            [] s = {"name", "price"} -> "{'name': 'string', 'price': 'string'}"
            [] OTHER -> "{}"

\* llm_model.invoke(rendered prompt): a chat message, or an exception.
LLMOutcomes(rendered) ==
    {[ok |-> TRUE, value |-> [type |-> "ai", content |-> t], error |-> ""] : t \in Texts}
        \cup {[ok |-> FALSE, value |-> [type |-> "ai", content |-> ""], error |-> "LLMError"]}

\* StrOutputParser: the text of the chat message.
StrOutputParser(message) == message.content

----------------------------------------------------------------------------
\* The two prompt templates: literal sections and {placeholders}.

Lit(t) == [var |-> FALSE, text |-> t]
Var(v) == [var |-> TRUE, text |-> v]

ContextSection == "**Additional Context**:"

TEMPLATE_REASONING ==
    << Lit("**Task**: Analyze the user's request and the provided JSON schema"),
       Lit("**User's Request**:"), Var("user_input"),
       Lit("**Desired JSON Output Schema**:"), Var("json_schema"),
       Lit("**Analysis Instructions**:"),
       Lit("**Response**:") >>

TEMPLATE_REASONING_WITH_CONTEXT ==
    << Lit("**Task**: Analyze the user's request, the provided JSON schema, and the additional context"),
       Lit("**User's Request**:"), Var("user_input"),
       Lit("**Desired JSON Output Schema**:"), Var("json_schema"),
       Lit(ContextSection), Var("additional_context"),
       Lit("**Analysis Instructions**:"),
       Lit("**Response**:") >>

\* PromptTemplate.format with the partial variables: every placeholder is
\* replaced by the value bound to it.
Format(p) ==
    [i \in 1..Len(p.template) |->
        IF p.template[i].var THEN p.partial_variables[p.template[i].text]
        ELSE p.template[i].text]

NoPrompt == [template |-> <<>>, partial_variables |-> <<>>]

\* A prompt that takes its context from the state's "doc" key.
BuildPromptFromState(up, simplefied_schema, additional_info) ==
    IF "doc" \in DOMAIN state
    THEN [template |-> TEMPLATE_REASONING_WITH_CONTEXT,
          partial_variables |-> [v \in {"user_input", "json_schema", "additional_context"} |->
              CASE v = "user_input" -> up
                [] v = "json_schema" -> Str(simplefied_schema)
                [] OTHER -> state["doc"]]]
    ELSE [template |-> TEMPLATE_REASONING,
          partial_variables |-> [v \in {"user_input", "json_schema"} |->
              IF v = "user_input" THEN up ELSE Str(simplefied_schema)]]

\* A prompt with the two bindings exchanged.
BuildPromptSwapped(up, simplefied_schema, additional_info) ==
    IF additional_info # None
    THEN [template |-> TEMPLATE_REASONING_WITH_CONTEXT,
          partial_variables |-> [v \in {"user_input", "json_schema", "additional_context"} |->
              CASE v = "user_input" -> Str(simplefied_schema)
                [] v = "json_schema" -> up
                [] OTHER -> additional_info]]
    ELSE [template |-> TEMPLATE_REASONING,
          partial_variables |-> [v \in {"user_input", "json_schema"} |->
              IF v = "user_input" THEN Str(simplefied_schema) ELSE up]]

\* Lines 138-148: the template and its partial variables.
BuildPrompt(up, simplefied_schema, additional_info) ==
    IF additional_info # None
    THEN [template |-> TEMPLATE_REASONING_WITH_CONTEXT,
          partial_variables |-> [v \in {"user_input", "json_schema", "additional_context"} |->
              CASE v = "user_input" -> up
                [] v = "json_schema" -> Str(simplefied_schema)
                [] OTHER -> additional_info]]
    ELSE [template |-> TEMPLATE_REASONING,
          partial_variables |-> [v \in {"user_input", "json_schema"} |->
              IF v = "user_input" THEN up ELSE Str(simplefied_schema)]]

----------------------------------------------------------------------------
\* Construction.

\* isinstance(llm, ChatOllama), and a check that takes every client for one.
IsAnyClient(llm) == TRUE
IsChatOllama(llm) == llm.class = "ChatOllama"

\* The format attribute a client of the class has before the node touches it.
InitialFormat(cls) == IF cls = "ChatOllama" THEN None ELSE NoAttr

NoSchema == [set |-> FALSE, value |-> {}]

NoNode == [output |-> <<>>, has_llm |-> FALSE, verbose |-> FALSE, force |-> FALSE,
           additional_info |-> None, output_schema |-> None,
           simplefied_schema |-> NoSchema]

\* BaseNode.__init__ keeps the output list (and the configuration).
BaseNodeInit(out) == [NoNode EXCEPT !.output = out]

ConfigKeySets == SUBSET {"llm_model", "schema", "additional_info"}

ConfigDicts ==
    UNION { {[k \in ks |-> CASE k = "llm_model" -> "llm"
                             [] k = "schema" -> s
                             [] OTHER -> a] : s \in SchemaClasses, a \in InfoValues}
            : ks \in ConfigKeySets }

NoFrame == [trace |-> <<>>, state_before |-> <<>>, schema_in |-> "",
            transform_called |-> FALSE,
            transform_out |-> [ok |-> FALSE, value |-> {}, error |-> ""],
            llm_called |-> FALSE, llm_in |-> <<>>,
            llm_out |-> [ok |-> FALSE, value |-> [type |-> "ai", content |-> ""], error |-> ""]]

NoReturn == [obj |-> "none", value |-> <<>>]

StateDicts == UNION {[ks -> Texts] : ks \in SUBSET Keys}

Init ==
    /\ node_config \in {[is_none |-> TRUE, items |-> <<>>]}
                          \cup {[is_none |-> FALSE, items |-> d] : d \in ConfigDicts}
    /\ output_arg \in OutputLists
    /\ llm_model \in {[class |-> c, format |-> InitialFormat(c)] : c \in LLMClasses}
    /\ ctor = [status |-> "none", error |-> ""]
    /\ node = NoNode
    /\ state \in StateDicts
    /\ pc = "idle"
    /\ user_prompt = ""
    /\ prompt = NoPrompt
    /\ refined_prompt = ""
    /\ error = ""
    /\ ret = NoReturn
    /\ calls = 0
    /\ cur = NoFrame
    /\ history = <<>>

\* ReasoningNode.__init__
Construct ==
    /\ ctor.status = "none"
    /\ UNCHANGED <<node_config, output_arg, state, pc, user_prompt, prompt,
                   refined_prompt, error, ret, calls, cur, history>>
    /\ IF node_config.is_none
       THEN \* line 40: None is not subscriptable
            /\ ctor' = [status |-> "raised", error |-> "TypeError"]
            /\ UNCHANGED <<node, llm_model>>
       ELSE IF ~GetItem(node_config.items, "llm_model").ok
       THEN \* line 40: node_config["llm_model"]
            /\ ctor' = [status |-> "raised", error |-> "KeyError"]
            /\ UNCHANGED <<node, llm_model>>
       ELSE /\ llm_model' = IF IsChatOllama(llm_model)
                            THEN [llm_model EXCEPT !.format = "json"]
                            ELSE llm_model
            /\ node' = [BaseNodeInit(output_arg) EXCEPT
                          !.has_llm = TRUE,
                          !.verbose = Get(node_config.items, "verbose", FALSE),
                          !.force = Get(node_config.items, "force", FALSE),
                          !.additional_info = Get(node_config.items, "additional_info", None),
                          !.output_schema = Get(node_config.items, "schema", None)]
            /\ ctor' = [status |-> "ok", error |-> ""]

----------------------------------------------------------------------------
\* execute(state), step by step.

Summary(c, status, err, st, text) ==
    [status |-> status, error |-> err, state_after |-> st, refined_prompt |-> text,
     trace |-> c.trace, state_before |-> c.state_before, schema_in |-> c.schema_in,
     transform_called |-> c.transform_called, transform_out |-> c.transform_out,
     llm_called |-> c.llm_called, llm_in |-> c.llm_in, llm_out |-> c.llm_out]

\* An exception leaves execute: nothing is returned, the state is as it is.
Raise(err, c) ==
    /\ pc' = "raised"
    /\ error' = err
    /\ cur' = c
    /\ history' = Append(history, Summary(c, "raised", err, state, ""))

\* Lines 72-134: the log line, then state['user_prompt'].
ExecuteBegin ==
    /\ ctor.status = "ok"
    /\ pc \in {"idle", "returned", "raised"}
    /\ calls < MaxCalls
    /\ calls' = calls + 1
    /\ ret' = NoReturn
    /\ prompt' = NoPrompt
    /\ refined_prompt' = ""
    /\ UNCHANGED <<node_config, output_arg, llm_model, ctor, node, state>>
    /\ LET c == [NoFrame EXCEPT !.trace = <<"log", "read">>, !.state_before = state]
           got == GetItem(state, "user_prompt")
       IN IF got.ok
          THEN /\ user_prompt' = got.value
               /\ pc' = "transform"
               /\ error' = ""
               /\ cur' = c
               /\ UNCHANGED history
          ELSE /\ user_prompt' = ""
               /\ Raise(got.error, c)

\* The transform step with the utility called a second time for the prompt.
TransformTwice ==
    /\ pc = "transform"
    /\ UNCHANGED <<node_config, output_arg, llm_model, ctor, state, user_prompt,
                   prompt, refined_prompt, ret, calls>>
    /\ IF node.output_schema = None
       THEN /\ Raise("AttributeError", cur)
            /\ UNCHANGED node
       ELSE LET description == SchemaDescription(node.output_schema)
            IN \E out \in TransformOutcomes(description) :
                LET c == [cur EXCEPT !.trace = @ \o <<"transform", "transform">>,
                                     !.schema_in = description,
                                     !.transform_called = TRUE,
                                     !.transform_out = out]
                IN IF out.ok
                   THEN /\ node' = [node EXCEPT !.simplefied_schema =
                                        [set |-> TRUE, value |-> out.value]]
                        /\ pc' = "prompt"
                        /\ cur' = c
                        /\ UNCHANGED <<error, history>>
                   ELSE /\ Raise(out.error, c)
                        /\ UNCHANGED node

\* Line 136: self.simplefied_schema = transform_schema(self.output_schema.schema())
Transform ==
    /\ pc = "transform"
    /\ UNCHANGED <<node_config, output_arg, llm_model, ctor, state, user_prompt,
                   prompt, refined_prompt, ret, calls>>
    /\ IF node.output_schema = None
       THEN \* None has no attribute schema
            /\ Raise("AttributeError", cur)
            /\ UNCHANGED node
       ELSE LET description == SchemaDescription(node.output_schema)
            IN \E out \in TransformOutcomes(description) :
                LET c == [cur EXCEPT !.trace = Append(@, "transform"),
                                     !.schema_in = description,
                                     !.transform_called = TRUE,
                                     !.transform_out = out]
                IN IF out.ok
                   THEN /\ node' = [node EXCEPT !.simplefied_schema =
                                        [set |-> TRUE, value |-> out.value]]
                        /\ pc' = "prompt"
                        /\ cur' = c
                        /\ UNCHANGED <<error, history>>
                   ELSE /\ Raise(out.error, c)
                        /\ UNCHANGED node

\* Lines 138-150: the prompt template and the output parser.
MakePrompt ==
    /\ pc = "prompt"
    /\ prompt' = BuildPrompt(user_prompt, node.simplefied_schema.value, node.additional_info)
    /\ pc' = "invoke"
    /\ UNCHANGED <<node_config, output_arg, llm_model, ctor, node, state, user_prompt,
                   refined_prompt, error, ret, calls, cur, history>>

\* The invocation with the client's exception caught and an empty answer used.
InvokeWithFallback ==
    /\ pc = "invoke"
    /\ UNCHANGED <<node_config, output_arg, llm_model, ctor, node, state, user_prompt,
                   prompt, ret, calls>>
    /\ LET rendered == Format(prompt)
       IN \E out \in LLMOutcomes(rendered) :
           LET c == [cur EXCEPT !.trace = Append(@, "llm"),
                                !.llm_called = TRUE,
                                !.llm_in = rendered,
                                !.llm_out = out]
           IN /\ refined_prompt' = IF out.ok THEN StrOutputParser(out.value) ELSE ""
              /\ pc' = "update"
              /\ cur' = c
              /\ UNCHANGED <<error, history>>

\* Lines 152-153: chain.invoke({}): render, call the client, parse.
Invoke ==
    /\ pc = "invoke"
    /\ UNCHANGED <<node_config, output_arg, llm_model, ctor, node, state, user_prompt,
                   prompt, ret, calls>>
    /\ LET rendered == Format(prompt)
       IN \E out \in LLMOutcomes(rendered) :
           LET c == [cur EXCEPT !.trace = Append(@, "llm"),
                                !.llm_called = TRUE,
                                !.llm_in = rendered,
                                !.llm_out = out]
           IN IF out.ok
              THEN /\ refined_prompt' = StrOutputParser(out.value)
                   /\ pc' = "update"
                   /\ cur' = c
                   /\ UNCHANGED <<error, history>>
              ELSE /\ Raise(out.error, c)
                   /\ UNCHANGED refined_prompt

\* self.output[0], and the last key of the list in its place.
LastOutputKey(out) == out[Len(out)]
OutputKey(out) == out[1]

\* state.update({key: text}); return state.  The object returned is the
\* caller's dict.  Before it: the state rebound to the one key, and the
\* update with user_prompt popped.
UpdateReplace(st, key, text) ==
    LET s == DictReplace(st, key, text)
    IN [state |-> s, ret |-> [obj |-> "state", value |-> s]]
UpdateAndRemoveInput(st, key, text) ==
    LET d == DictUpdate(st, key, text)
        s == [x \in (DOMAIN d) \ ({"user_prompt"} \ {key}) |-> d[x]]
    IN [state |-> s, ret |-> [obj |-> "state", value |-> s]]
UpdateAndReturn(st, key, text) ==
    LET s == DictUpdate(st, key, text)
    IN [state |-> s, ret |-> [obj |-> "state", value |-> s]]

\* Lines 155-156.
Update ==
    /\ pc = "update"
    /\ UNCHANGED <<node_config, output_arg, llm_model, ctor, node, user_prompt,
                   prompt, refined_prompt, calls>>
    /\ IF Len(node.output) = 0
       THEN \* self.output[0] of an empty list
            /\ Raise("IndexError", cur)
            /\ UNCHANGED <<state, ret>>
       ELSE LET r == UpdateAndReturn(state, OutputKey(node.output), refined_prompt)
                c == [cur EXCEPT !.trace = Append(@, "write")]
            IN /\ state' = r.state
               /\ ret' = r.ret
               /\ pc' = "returned"
               /\ cur' = c
               /\ history' = Append(history,
                                Summary(c, "returned", "", r.state, refined_prompt))
               /\ UNCHANGED error

Next == Construct \/ ExecuteBegin \/ Transform \/ MakePrompt \/ Invoke \/ Update

Spec == Init /\ [][Next]_vars

----------------------------------------------------------------------------
\* Properties.

Terminal == pc \in {"returned", "raised"}
FullTrace == <<"log", "read", "transform", "llm", "write">>
IsPrefix(s, t) == Len(s) <= Len(t) /\ \A i \in 1..Len(s) : s[i] = t[i]
Count(s, e) == Cardinality({i \in 1..Len(s) : s[i] = e})
HadUserPrompt == "user_prompt" \in DOMAIN cur.state_before
TransformFailed == cur.transform_called /\ ~cur.transform_out.ok
LLMFailed == cur.llm_called /\ ~cur.llm_out.ok

\* C1: when the state holds user_prompt and the transform utility and the LLM
\* client both succeed (and there is a first output key), execute returns the
\* very state object it was given, and in it the first output key maps to
\* the text of the LLM client's message of that call.
C1_ReturnsStateWithOutput ==
    (calls > 0 /\ Terminal /\ HadUserPrompt /\ Len(output_arg) >= 1
        /\ cur.transform_called /\ cur.transform_out.ok
        /\ cur.llm_called /\ cur.llm_out.ok)
    => /\ pc = "returned"
       /\ ret.obj = "state"
       /\ ret.value = state
       /\ output_arg[1] \in DOMAIN state
       /\ state[output_arg[1]] = cur.llm_out.value.content

\* C1 witness: a call returned having added the second text under a first
\* output key that was not in the state, with two output keys configured.
C1_Witness ==
    /\ pc = "returned"
    /\ Len(output_arg) = 2
    /\ output_arg[1] \notin DOMAIN cur.state_before
    /\ cur.llm_out.value.content = "titles"
    /\ state[output_arg[1]] = "titles"

\* C2 (as claimed): after a successful execute every key of the state before
\* the call is still present with the same value.
C2_AllKeysUnchanged ==
    pc = "returned" =>
        \A k \in DOMAIN cur.state_before :
            k \in DOMAIN state /\ state[k] = cur.state_before[k]

\* C2 (amended): after a successful execute every key of the state before the
\* call is still present, and every one of them other than the first output
\* key has the same value.
C2_OtherKeysUnchanged ==
    pc = "returned" =>
        \A k \in DOMAIN cur.state_before :
            /\ k \in DOMAIN state
            /\ k # output_arg[1] => state[k] = cur.state_before[k]

\* C2 witness: a call returned with the three keys in the state, the output
\* key among them overwritten with another value.
C2_Witness ==
    /\ pc = "returned"
    /\ DOMAIN cur.state_before = Keys
    /\ output_arg[1] = "answer"
    /\ state["answer"] # cur.state_before["answer"]
    /\ state["doc"] = cur.state_before["doc"]

\* C3: a call on a state without user_prompt ends in a KeyError, the LLM
\* client is not invoked in it, and the state is as it was.
C3_MissingPromptKeyError ==
    (calls > 0 /\ ~HadUserPrompt)
    => /\ pc = "raised"
       /\ error = "KeyError"
       /\ ~cur.llm_called
       /\ Count(cur.trace, "llm") = 0
       /\ ret = NoReturn
       /\ state = cur.state_before

\* C3 witness: the call on a state that holds other keys but not user_prompt
\* has raised.
C3_Witness ==
    /\ calls > 0
    /\ pc = "raised"
    /\ ~HadUserPrompt
    /\ DOMAIN cur.state_before = {"doc", "answer"}

\* The prompts the LLM client has been given, in every call so far.
RenderedPrompts ==
    {history[i].llm_in : i \in {j \in 1..Len(history) : history[j].llm_called}}
        \cup (IF cur.llm_called THEN {cur.llm_in} ELSE {})
RendersTemplate(r, T) ==
    /\ Len(r) = Len(T)
    /\ \A j \in 1..Len(T) : ~T[j].var => r[j] = T[j].text
HasContextSection(r) == \E j \in 1..Len(r) : r[j] = ContextSection
InfoConfigured ==
    /\ ~node_config.is_none
    /\ "additional_info" \in DOMAIN node_config.items
    /\ node_config.items["additional_info"] # None
InfoNonEmpty == InfoConfigured /\ node_config.items["additional_info"] # ""
InfoAbsent == node_config.is_none \/ "additional_info" \notin DOMAIN node_config.items

\* C4: every prompt given to the LLM client renders exactly one of the two
\* templates: the one with the Additional Context section when
\* additional_info is configured as a non-empty string, the base one without
\* it when additional_info is not configured; the choice is a function of the
\* configuration, the same in every call on the node.
C4_TemplateByConfiguration ==
    \A r \in RenderedPrompts :
        /\ RendersTemplate(r, TEMPLATE_REASONING) # RendersTemplate(r, TEMPLATE_REASONING_WITH_CONTEXT)
        /\ InfoNonEmpty => RendersTemplate(r, TEMPLATE_REASONING_WITH_CONTEXT) /\ HasContextSection(r)
        /\ InfoAbsent => RendersTemplate(r, TEMPLATE_REASONING) /\ ~HasContextSection(r)
        /\ RendersTemplate(r, TEMPLATE_REASONING_WITH_CONTEXT) <=> InfoConfigured

\* C4 witness: two calls on one node have each given the client a prompt, the
\* two prompts differ, the state holds a doc key, and the base template was
\* used.
C4_Witness ==
    /\ Len(history) = 2
    /\ history[1].llm_called /\ history[2].llm_called
    /\ history[1].llm_in # history[2].llm_in
    /\ "doc" \in DOMAIN state
    /\ InfoAbsent
    /\ ~HasContextSection(history[2].llm_in)

\* C5: when the transform utility or the LLM client raises, that error is the
\* one that reaches the caller, the failing collaborator was called once, the
\* LLM client is not called after a transform failure, nothing is returned
\* and the state is as it was before the call.
C5_FailurePropagates ==
    (TransformFailed \/ LLMFailed)
    => /\ pc = "raised"
       /\ error = (IF TransformFailed THEN cur.transform_out.error ELSE cur.llm_out.error)
       /\ Count(cur.trace, "transform") = 1
       /\ Count(cur.trace, "llm") = (IF LLMFailed THEN 1 ELSE 0)
       /\ TransformFailed => ~cur.llm_called
       /\ ret = NoReturn
       /\ state = cur.state_before
       /\ history[Len(history)].state_after = cur.state_before

\* C5 witness: the LLM client raised in a second call, after a first call
\* that returned.
C5_Witness ==
    /\ LLMFailed
    /\ pc = "raised"
    /\ Len(history) = 2
    /\ history[1].status = "returned"

\* The collaborators have behaved as functions of their inputs: the same
\* input gave the same outcome in every call so far.
Deterministic ==
    \A i, j \in 1..Len(history) :
        /\ (history[i].transform_called /\ history[j].transform_called
              /\ history[i].schema_in = history[j].schema_in)
           => history[i].transform_out = history[j].transform_out
        /\ (history[i].llm_called /\ history[j].llm_called
              /\ history[i].llm_in = history[j].llm_in)
           => history[i].llm_out = history[j].llm_out

\* No collaborator raised in the i-th call.
NoStubFailure(i) ==
    /\ history[i].transform_called => history[i].transform_out.ok
    /\ history[i].llm_called => history[i].llm_out.ok

\* C6 (as claimed): with deterministic collaborators that do not raise, the
\* call that follows a successful call, on the state that call returned,
\* succeeds with the same text and leaves the state as the first call left
\* it, whatever the output key.
C6_SecondCallSame ==
    \A i \in 1..Len(history) :
        (i + 1 <= Len(history) /\ history[i].status = "returned" /\ Deterministic
            /\ NoStubFailure(i + 1))
        => /\ history[i + 1].status = "returned"
           /\ history[i + 1].refined_prompt = history[i].refined_prompt
           /\ history[i + 1].state_after = history[i].state_after

\* C6 (amended): the same, for every first output key other than user_prompt.
C6_SecondCallSameUnlessInputKey ==
    \A i \in 1..Len(history) :
        (i + 1 <= Len(history) /\ history[i].status = "returned" /\ Deterministic
            /\ NoStubFailure(i + 1) /\ output_arg[1] # "user_prompt")
        => /\ history[i + 1].status = "returned"
           /\ history[i + 1].state_before = history[i].state_after
           /\ history[i + 1].llm_in = history[i].llm_in
           /\ history[i + 1].refined_prompt = history[i].refined_prompt
           /\ history[i + 1].state_after = history[i].state_after

\* C6 witness: two successful calls with deterministic collaborators, the
\* first of which added the output key to the state.
C6_Witness ==
    /\ Len(history) = 2
    /\ history[1].status = "returned" /\ history[2].status = "returned"
    /\ Deterministic
    /\ output_arg[1] = "answer"
    /\ "answer" \notin DOMAIN history[1].state_before
    /\ history[2].state_after = history[1].state_after

\* C7 (as claimed): a node is obtained only from a configuration that holds
\* both llm_model and schema, so that no execute call starts on a node
\* without an LLM client or without a schema.
C7_ConstructionRequiresConfig ==
    /\ ctor.status = "ok" =>
          /\ ~node_config.is_none
          /\ "llm_model" \in DOMAIN node_config.items
          /\ "schema" \in DOMAIN node_config.items
    /\ calls > 0 => node.has_llm /\ node.output_schema # None

\* C8: once construction has returned, a ChatOllama client has its format set
\* to json (so before any invocation by execute); a client of another class
\* has the format it had, in every state.
C8_JsonFormatForOllama ==
    /\ (ctor.status = "ok" /\ llm_model.class = "ChatOllama") => llm_model.format = "json"
    /\ (\E r \in RenderedPrompts : TRUE) => ctor.status = "ok"
    /\ llm_model.class # "ChatOllama" => llm_model.format = InitialFormat(llm_model.class)

\* C8 witness: a ChatOllama client has been invoked by execute.
C8_Witness ==
    /\ llm_model.class = "ChatOllama"
    /\ cur.llm_called
    /\ llm_model.format = "json"

\* C9: the prompt handed to the LLM client binds user_input to the
\* user_prompt of the state of this call, json_schema to the string of what
\* the transform utility returned in this call, and additional_context, in
\* the context template only, to the configured additional_info; the rendered
\* text carries these values at the placeholders.
C9_PromptBindings ==
    cur.llm_called =>
        LET pv == prompt.partial_variables
            T == prompt.template
        IN /\ pv["user_input"] = cur.state_before["user_prompt"]
           /\ pv["json_schema"] = Str(cur.transform_out.value)
           /\ cur.schema_in = SchemaDescription(node_config.items["schema"])
           /\ IF T = TEMPLATE_REASONING_WITH_CONTEXT
              THEN /\ DOMAIN pv = {"user_input", "json_schema", "additional_context"}
                   /\ pv["additional_context"] = node_config.items["additional_info"]
              ELSE DOMAIN pv = {"user_input", "json_schema"}
           /\ Len(cur.llm_in) = Len(T)
           /\ \A j \in 1..Len(T) :
                 cur.llm_in[j] = (IF T[j].var THEN pv[T[j].text] ELSE T[j].text)

\* C9 witness: the client is invoked in a second call whose user_prompt and
\* whose transform result both differ from those of the first call, with the
\* context template.
C9_Witness ==
    /\ cur.llm_called
    /\ Len(history) >= 1
    /\ history[1].llm_called
    /\ history[1].transform_out.value # cur.transform_out.value
    /\ history[1].state_before["user_prompt"] # cur.state_before["user_prompt"]
    /\ prompt.template = TEMPLATE_REASONING_WITH_CONTEXT

\* C10: the steps of a call happen in the order log, read, transform, LLM,
\* write, each at most once; a call that returned made each exactly once; the
\* state differs from the state before the call only once all of them are
\* made; the transform utility is not called when user_prompt is missing.
C10_StepOrder ==
    calls > 0 =>
        /\ IsPrefix(cur.trace, FullTrace)
        /\ pc = "returned" => cur.trace = FullTrace
        /\ state # cur.state_before => cur.trace = FullTrace
        /\ Count(cur.trace, "write") = 1 => (cur.llm_called /\ cur.llm_out.ok)
        /\ ~HadUserPrompt => (Count(cur.trace, "transform") = 0 /\ ~cur.transform_called)

\* C10 witness: a second call returned having changed the state.
C10_Witness ==
    /\ pc = "returned"
    /\ calls = 2
    /\ cur.trace = FullTrace
    /\ state # cur.state_before

====
